---- MODULE Spec2Model ----
(***************************************************************************)
(* A model of package smap (smap.go): a map guarded by one sync.RWMutex,   *)
(* its Live Iterator (sMapIter, holds the read lock until Close) and its   *)
(* Snapshot Iterator (rIter, works on a copy).                             *)
(*                                                                         *)
(* Three specifications share the variables:                               *)
(*   Spec     threads calling the methods of one shared map concurrently,  *)
(*            every lock call a step of its own;                           *)
(*   SpecMap  one caller, every method of the map one atomic step, on a    *)
(*            map and its clone;                                           *)
(*   SpecIter one caller driving one Live and one Snapshot Iterator.       *)
(***************************************************************************)
EXTENDS Integers, Sequences, FiniteSets, TLC

\* ---------------------------------------------------------------- bounds
NThreads == 3
MaxKey == 2
MaxVal == 2
MaxOps == 3
MaxArgs == 2

Threads == 1..NThreads
Keys == 1..MaxKey
Vals == 1..MaxVal

\* The zero value of K and of V (`var k K`, `var v V`).
Zero == 0

\* ------------------------------------------------------- values and maps
\* A Go map[K]V: a function whose domain is the set of keys present.
EmptyMap == [k \in {} |-> Zero]
Maps == UNION {[D -> Vals] : D \in SUBSET Keys}

\* m[k] of Go: the zero value when k is absent.
Lookup(mp, k) == IF k \in DOMAIN mp THEN mp[k] ELSE Zero

\* m[k] = v of Go.
Store(mp, k, v) == [x \in DOMAIN mp \cup {k} |-> IF x = k THEN v ELSE mp[x]]

\* delete(m, k) of Go: nothing happens when k is absent.
Remove(mp, k) == [x \in DOMAIN mp \ {k} |-> mp[x]]

\* The key lists a caller passes to Delete(keys ...K): duplicates allowed.
KeyLists == UNION {[1..n -> Keys] : n \in 0..MaxArgs}

\* All orders in which `range` may enumerate the set S (tabulated for the sets
\* of keys within the bound).
Orders(S) == {p \in [1..Cardinality(S) -> S] : \A i, j \in 1..Cardinality(S) : p[i] = p[j] => i = j}
OrdersOf == [S \in SUBSET Keys |-> Orders(S)]
Perms(S) == IF S \subseteq Keys THEN OrdersOf[S] ELSE Orders(S)

\* The sources a caller passes to Merge or New, each with an order in which
\* range enumerates it.
Sources == UNION {{<<src, order>> : order \in Orders(DOMAIN src)} : src \in Maps}

\* ------------------------------------------------------------ the state
VARIABLES
    m,        \* s.m: the backing store of the shared map
    readers,  \* s.mu: the number of read holds (RLock without its RUnlock yet)
    wOwner,   \* s.mu: the thread inside Lock()..Unlock(), 0 when there is none
    pc,       \* pc[t]: where thread t is in the method it is running
    wl,       \* wl[t]: what a running Merge or Delete has processed of its arguments
    lit,      \* lit[t]: thread t's Live Iterator (sMapIter)
    rit,      \* rit[t]: thread t's Snapshot Iterator (rIter)
    litSnap,  \* litSnap[t]: history: the store when Iter returned lit[t]
    ritSnap,  \* ritSnap[t]: history: the store when RIter copied it for rit[t]
    ops,      \* the number of method calls made so far (bounded by MaxOps)
    used,     \* the number of threads that have made a call
    cl,       \* SpecClone: the store New allocated for the clone
    clRef,    \* SpecClone: the store the clone's field m points to ("none": no clone)
    last,     \* SpecMap, SpecClone: the last call: its arguments, result and pre-state
    lastSet,  \* SpecMap: history: lastSet[k] is v while Set(k, v) is the last write of k
    hist,     \* SpecIter, SpecSort: history of the caller's iterator
    cas,      \* SpecCAS: history: the first store, the CAS calls, the keys Set wrote
    rd        \* SpecAtomic: rd[t]: the copy thread t's reading loop has made so far,
              \* and history: the store when the loop began, a mutation under way then

lockVars == <<readers, wOwner>>
iterVars == <<lit, litSnap, rit, ritSnap>>
seqVars == <<cl, clRef, last, lastSet, hist, cas, rd>>
vars == <<m, readers, wOwner, pc, wl, lit, litSnap, rit, ritSnap, ops, used, cl, clRef, last, lastSet, hist,
          cas, rd>>

\* ------------------------------------------------------------ sMapIter
\* &sMapIter{l: s.mu.RLocker(), m: s, i: 0} with iter.keys = keys. Keys() builds
\* its result with make([]K, 0, n), so keys is never nil here, even when empty.
NewIter(keys) ==
    [keys |-> keys, keysNil |-> FALSE, i |-> 0, k |-> Zero, v |-> Zero, m |-> "s"]

\* The fields as Close leaves them: keys = nil, k, v zero, i = 0, m = nil.
ClosedIter ==
    [keys |-> <<>>, keysNil |-> TRUE, i |-> 0, k |-> Zero, v |-> Zero, m |-> "nil"]

\* Next's result: i.i >= len(i.keys) returns false.
ItNextOkShort(it) == it.i + 1 < Len(it.keys)
ItNextOk(it) == it.i < Len(it.keys)

\* Next's effect; `store` is i.m.m, the map the iterator points to. Go's keys[i.i]
\* is keys[i.i + 1] here (sequences start at 1).
ItNext(it, store) ==
    IF ~ItNextOk(it) THEN it
    ELSE [it EXCEPT !.k = it.keys[it.i + 1],
                    !.v = Lookup(store, it.keys[it.i + 1]),
                    !.i = it.i + 1]

ErrClosed == "iterator closed"
NoErr == "nil"

\* Key and Val: the error when i.keys == nil, else the fields k and v.
ItKeyStrict(it) ==
    IF it.keysNil \/ it.i = 0 THEN [val |-> Zero, err |-> ErrClosed] ELSE [val |-> it.k, err |-> NoErr]
ItKey(it) == IF it.keysNil THEN [val |-> Zero, err |-> ErrClosed] ELSE [val |-> it.k, err |-> NoErr]
ItVal(it) == IF it.keysNil THEN [val |-> Zero, err |-> ErrClosed] ELSE [val |-> it.v, err |-> NoErr]
ItClose(it) == ClosedIter

\* --------------------------------------------------------------- rIter
\* &rIter{m: cpy, i: 0, keys: keys}; keys comes from make([]K, 0, len(cpy)).
NewRIter(cpy, keys) ==
    [keys |-> keys, keysNil |-> FALSE, i |-> 0, k |-> Zero, v |-> Zero, m |-> cpy]

\* After Close r.m is nil; a nil map reads like an empty one.
ClosedRIter ==
    [keys |-> <<>>, keysNil |-> TRUE, i |-> 0, k |-> Zero, v |-> Zero, m |-> EmptyMap]

\* r.m, the map Next and Prev read the value from: the copy RIter got from Raw().
RStoreLive(r) == m
RStore(r) == r.m

\* Next: false when r.i >= len(r.keys); else it loads keys[r.i] and moves on.
RNextOk(r) == r.i < Len(r.keys)
RNext(r) ==
    IF ~RNextOk(r) THEN r
    ELSE [r EXCEPT !.k = r.keys[r.i + 1], !.v = Lookup(RStore(r), r.keys[r.i + 1]), !.i = r.i + 1]

\* Prev: false when r.i == 0; else it moves back and loads keys[r.i].
RPrevOk(r) == r.i # 0
RPrevNoLoad(r) == IF ~RPrevOk(r) THEN r ELSE [r EXCEPT !.i = r.i - 1]
RPrev(r) ==
    IF ~RPrevOk(r) THEN r
    ELSE [r EXCEPT !.i = r.i - 1, !.k = r.keys[r.i], !.v = Lookup(RStore(r), r.keys[r.i])]

\* Rewind: r.i = 0; false when there are no keys.
RRewindOk(r) == 0 < Len(r.keys)
RRewindStay(r) == r
RRewind(r) == [r EXCEPT !.i = 0]

\* End: r.i = len(r.keys), then Prev.
REndOk(r) == RPrevOk([r EXCEPT !.i = Len(r.keys)])
REndPastEnd(r) == [r EXCEPT !.i = Len(r.keys)]
REnd(r) == RPrev([r EXCEPT !.i = Len(r.keys)])

RKey(r) == IF r.keysNil THEN [val |-> Zero, err |-> ErrClosed] ELSE [val |-> r.k, err |-> NoErr]
RVal(r) == IF r.keysNil THEN [val |-> Zero, err |-> ErrClosed] ELSE [val |-> r.v, err |-> NoErr]
RCloseKeepKeys(r) == [r EXCEPT !.m = EmptyMap]
RClose(r) == ClosedRIter

\* ------------------------------------------------------ sort.SliceStable
\* The comparators callers pass: nil (no sorting), a < b, a > b.
Comparators == {"nil", "lt", "gt"}
Cmp(f, a, b) == IF f = "lt" THEN a < b ELSE a > b

\* x put into the sorted sequence s behind every element it is not less than.
RECURSIVE InsertStable(_, _, _)
InsertStable(s, x, f) ==
    IF s = <<>> THEN <<x>>
    ELSE IF Cmp(f, x, Head(s)) THEN <<x>> \o s
    ELSE <<Head(s)>> \o InsertStable(Tail(s), x, f)

\* sort.SliceStable(keys, func(i, j) { return f(keys[i], keys[j]) }): a stable sort.
RECURSIVE SliceStable(_, _)
SliceStable(keys, f) ==
    IF keys = <<>> THEN <<>>
    ELSE InsertStable(SliceStable(SubSeq(keys, 1, Len(keys) - 1), f), keys[Len(keys)], f)

\* The keys an iterator is built with: Keys'/range's order, then the optional sort.
SortedKeysUnsorted(keys, f) == keys
SortedKeys(keys, f) == IF f = "nil" THEN keys ELSE SliceStable(keys, f)

\* ------------------------------------------------- the methods' bodies
\* Set: s.m[k] = v.
SetBodyIfAbsent(mp, k, v) == IF k \in DOMAIN mp THEN mp ELSE Store(mp, k, v)
SetBody(mp, k, v) == Store(mp, k, v)

\* CAS: `if _, ok := s.m[k]; ok { return false }; s.m[k] = v; return true`.
CASResult(mp, k) == k \notin DOMAIN mp
CASBodyOverwrite(mp, k, v) == Store(mp, k, v)
CASBody(mp, k, v) == IF k \in DOMAIN mp THEN mp ELSE Store(mp, k, v)

\* Get: `v, ok := s.m[k]`.
GetBody(mp, k) == [v |-> Lookup(mp, k), ok |-> k \in DOMAIN mp]

\* One round of Merge's loop: the entry (k, v) of the source.
MergeEntryFlipped(dst, k, v, overwrite) ==
    IF overwrite /\ k \in DOMAIN dst THEN dst ELSE Store(dst, k, v)
MergeEntry(dst, k, v, overwrite) ==
    IF ~overwrite /\ k \in DOMAIN dst THEN dst ELSE Store(dst, k, v)

\* Merge's loop, `range m` enumerating the source's keys in the order `order`.
RECURSIVE MergeLoop(_, _, _, _)
MergeLoop(dst, src, overwrite, order) ==
    IF order = <<>> THEN dst
    ELSE MergeLoop(MergeEntry(dst, Head(order), src[Head(order)], overwrite),
                   src, overwrite, Tail(order))

\* Merge: nothing for an empty source, else the loop.
MergeBody(dst, src, overwrite, order) ==
    IF Cardinality(DOMAIN src) = 0 THEN dst ELSE MergeLoop(dst, src, overwrite, order)

\* Delete's loop: `for _, k := range keys { delete(s.m, k) }`.
DeleteBodyFirst(mp, keys) == IF keys = <<>> THEN mp ELSE Remove(mp, Head(keys))
RECURSIVE DeleteBody(_, _)
DeleteBody(mp, keys) ==
    IF keys = <<>> THEN mp ELSE DeleteBody(Remove(mp, Head(keys)), Tail(keys))

\* Len: len(s.m).
LenBody(mp) == Cardinality(DOMAIN mp)

\* Keys: `keys := make([]K, 0, len(s.m))`, then one append for each key range
\* hands out, in the order `order`.
RECURSIVE KeysLoop(_, _)
KeysLoop(keys, order) ==
    IF order = <<>> THEN keys ELSE KeysLoop(Append(keys, Head(order)), Tail(order))
KeysBodyPrefilled(order) == KeysLoop([i \in 1..Len(order) |-> Zero], order)
KeysBody(order) == KeysLoop(<<>>, order)

\* Raw: a new map with every entry of s.m.
RawBody(mp) == [k \in DOMAIN mp |-> mp[k]]

\* New(init): an empty map, then Merge(init, true).
New(init, order) == MergeBody(EmptyMap, init, TRUE, order)

\* ------------------------------------------------------ sync.RWMutex
\* RLock returns at once unless a writer is inside Lock()..Unlock(); otherwise
\* the caller sleeps until that writer's Unlock.
ReaderMayEnterAlways == TRUE
ReaderMayEnter == wOwner = 0

\* Lock first excludes the other writers, then waits until no read hold is left.
WriterMayStartAlways == TRUE
WriterMayStart == wOwner = 0
WriterMayEnterAtOnce == TRUE
WriterMayEnter == readers = 0

\* Unlock wakes every reader that went to sleep in RLock: they hold the lock then.
AdmitNone(p) == p
Admit(p) ==
    CASE p = "rwait" -> "rcs"
      [] p = "iwait" -> "ikeys"
      [] p = "kwait" -> "kcs"
      [] OTHER -> p
Sleeping == {t \in Threads : pc[t] \in {"rwait", "iwait", "kwait"}}

\* s.mu.Unlock() by thread t, which then returns to its caller.
Unlock(t) ==
    /\ wOwner' = 0
    /\ readers' = readers + Cardinality(Sleeping)
    /\ pc' = [u \in Threads |-> IF u = t THEN "idle" ELSE Admit(pc[u])]

\* A Merge or Delete in its loop: the keys of the source Merge has handled and
\* its overwrite flag; the number of keys of the list Delete has handled.
NoArgs == [done |-> {}, overwrite |-> FALSE, n |-> 0]

\* -------------------------------------------------- Spec: the callers
\* A call by thread t counts against the bound on calls. The threads are alike,
\* so they are numbered in the order of their first calls.
Call(t) ==
    /\ pc[t] = "idle" /\ ops < MaxOps
    /\ t <= used + 1
    /\ ops' = ops + 1
    /\ used' = IF t > used THEN t ELSE used

\* Merge(m, overwrite) with len(m) == 0: returns before taking the lock.
MergeEmpty(t) ==
    /\ Call(t)
    /\ UNCHANGED <<m, lockVars, pc, wl, iterVars, seqVars>>

\* ------------------------------------------------------ Spec: locking
\* s.mu.RLock() by thread t: it holds the lock (pc `got`) or sleeps (pc `wait`).
RLockTo(t, got, wait) ==
    IF ReaderMayEnter
    THEN readers' = readers + 1 /\ pc' = [pc EXCEPT ![t] = got]
    ELSE readers' = readers /\ pc' = [pc EXCEPT ![t] = wait]

\* A thread calls one of Get, Len, Keys, Raw, Filter, Clone, RIter: each starts
\* with s.mu.RLock(), and which of them it is shows when its body runs.
RLock(t) ==
    /\ Call(t)
    /\ RLockTo(t, "rcs", "rwait")
    /\ UNCHANGED <<m, wOwner, wl, iterVars, seqVars>>

\* A thread calls Iter (its previous Live Iterator, if any, has been closed):
\* iter.l.Lock() takes the read lock the iterator keeps until Close.
IterLock(t) ==
    /\ Call(t)
    /\ lit[t].m = "nil"
    /\ RLockTo(t, "ikeys", "iwait")
    /\ UNCHANGED <<m, wOwner, wl, iterVars, seqVars>>

\* s.Keys() called by Iter: a second s.mu.RLock() while the first hold is kept.
IterKeysRLock(t) ==
    /\ pc[t] = "ikeys"
    /\ RLockTo(t, "kcs", "kwait")
    /\ UNCHANGED <<m, wOwner, wl, iterVars, ops, used, seqVars>>

\* s.mu.Lock() once the other writers are out: the writer shuts out new readers
\* and holds the lock (pc "wcs") unless read holds are left (pc "wwait").
LockTo(t) ==
    /\ wOwner' = t
    /\ pc' = [pc EXCEPT ![t] = IF WriterMayEnter THEN "wcs" ELSE "wwait"]

\* A thread calls one of Set, CAS, Delete or Merge with a non-empty source: each
\* starts with s.mu.Lock(), which queues behind a writer that is inside.
Lock(t) ==
    /\ Call(t)
    /\ IF WriterMayStart THEN LockTo(t)
       ELSE wOwner' = wOwner /\ pc' = [pc EXCEPT ![t] = "lock"]
    /\ UNCHANGED <<m, readers, wl, iterVars, seqVars>>

\* s.mu.Lock() of a queued writer, the writer before it gone.
LockStart(t) ==
    /\ pc[t] = "lock"
    /\ WriterMayStart
    /\ LockTo(t)
    /\ UNCHANGED <<m, readers, wl, iterVars, ops, used, seqVars>>

\* s.mu.Lock() returns to a sleeping writer when the read holds are gone.
LockEnter(t) ==
    /\ pc[t] = "wwait"
    /\ WriterMayEnter
    /\ pc' = [pc EXCEPT ![t] = "wcs"]
    /\ UNCHANGED <<m, lockVars, wl, iterVars, ops, used, seqVars>>

\* --------------------------------------------- Spec: the reading bodies
\* s.mu.RUnlock() by thread t, which then returns to its caller.
RUnlockKeep(t) ==
    /\ readers' = readers
    /\ pc' = [pc EXCEPT ![t] = "idle"]
RUnlock(t) ==
    /\ readers > 0
    /\ readers' = readers - 1
    /\ pc' = [pc EXCEPT ![t] = "idle"]

\* The body of a reading method that leaves nothing behind in the caller.
ReadBody(t) ==
    /\ pc[t] = "rcs"
    /\ RUnlock(t)
    /\ UNCHANGED <<m, wOwner, wl, iterVars, ops, used, seqVars>>

Get(t) == ReadBody(t)
MapLen(t) == ReadBody(t)
KeysCall(t) == ReadBody(t)
Raw(t) == ReadBody(t)
Filter(t) == ReadBody(t)
Clone(t) == ReadBody(t)

\* RIter: its Raw() call is all it does under the lock; the iterator it builds
\* belongs to the caller alone (SpecIter).
RIter(t) == ReadBody(t)

\* Iter, after s.Keys() took its read lock: Keys copies the keys in the order
\* range enumerates them and releases its own hold; Iter sorts them and returns,
\* keeping the hold of iter.l.Lock(). The callers of Spec pass the comparator
\* a < b and leave the traversal to SpecIter.
IterReturn(t) ==
    /\ pc[t] = "kcs"
    /\ RUnlock(t)
    /\ \E order \in Perms(DOMAIN m) :
           lit' = [lit EXCEPT ![t] = NewIter(SortedKeys(order, "lt"))]
    /\ litSnap' = [litSnap EXCEPT ![t] = m]
    /\ UNCHANGED <<m, wOwner, wl, rit, ritSnap, ops, used, seqVars>>

\* sMapIter.Close, called once: clears the fields and releases the read hold.
IterClose(t) ==
    /\ pc[t] = "idle" /\ lit[t].m = "s"
    /\ lit' = [lit EXCEPT ![t] = ItClose(lit[t])]
    /\ RUnlock(t)
    /\ litSnap' = [litSnap EXCEPT ![t] = EmptyMap]
    /\ UNCHANGED <<m, wOwner, wl, rit, ritSnap, ops, used, seqVars>>

\* --------------------------------------------- Spec: the writing bodies
Set(t) ==
    /\ pc[t] = "wcs"
    /\ \E k \in Keys, v \in Vals : m' = SetBody(m, k, v)
    /\ Unlock(t)
    /\ UNCHANGED <<wl, iterVars, ops, used, seqVars>>

CAS(t) ==
    /\ pc[t] = "wcs"
    /\ \E k \in Keys, v \in Vals : m' = CASBody(m, k, v)
    /\ Unlock(t)
    /\ UNCHANGED <<wl, iterVars, ops, used, seqVars>>

\* Delete(keys...) enters its loop. The list has at most MaxArgs keys, duplicates
\* allowed; which key comes next shows when the loop reaches it.
DeleteBegin(t) ==
    /\ pc[t] = "wcs"
    /\ wl' = [wl EXCEPT ![t] = NoArgs]
    /\ pc' = [pc EXCEPT ![t] = "dloop"]
    /\ UNCHANGED <<m, lockVars, iterVars, ops, used, seqVars>>

\* One round of Delete's loop: delete(s.m, k) for the next key k of the list.
DeleteStep(t) ==
    /\ pc[t] = "dloop" /\ wl[t].n < MaxArgs
    /\ \E k \in Keys : m' = Remove(m, k)
    /\ wl' = [wl EXCEPT ![t].n = @ + 1]
    /\ UNCHANGED <<lockVars, pc, iterVars, ops, used, seqVars>>

\* The list is exhausted (it may have been empty): Unlock and return.
DeleteEnd(t) ==
    /\ pc[t] = "dloop"
    /\ Unlock(t)
    /\ wl' = [wl EXCEPT ![t] = NoArgs]
    /\ UNCHANGED <<m, iterVars, ops, used, seqVars>>

\* Merge(src, overwrite), src not empty, enters its loop. Which entries src has
\* shows as range hands them out, each key once.
MergeBegin(t) ==
    /\ pc[t] = "wcs"
    /\ \E overwrite \in BOOLEAN : wl' = [wl EXCEPT ![t] = [NoArgs EXCEPT !.overwrite = overwrite]]
    /\ pc' = [pc EXCEPT ![t] = "mloop"]
    /\ UNCHANGED <<m, lockVars, iterVars, ops, used, seqVars>>

\* One round of Merge's loop, for an entry (k, v) of src not handled yet.
MergeStep(t) ==
    /\ pc[t] = "mloop"
    /\ \E k \in Keys \ wl[t].done, v \in Vals :
           /\ m' = MergeEntry(m, k, v, wl[t].overwrite)
           /\ wl' = [wl EXCEPT ![t].done = @ \cup {k}]
    /\ UNCHANGED <<lockVars, pc, iterVars, ops, used, seqVars>>

\* range is exhausted (src had at least one entry): Unlock and return.
MergeEnd(t) ==
    /\ pc[t] = "mloop" /\ wl[t].done # {}
    /\ Unlock(t)
    /\ wl' = [wl EXCEPT ![t] = NoArgs]
    /\ UNCHANGED <<m, iterVars, ops, used, seqVars>>

\* ------------------------------------------------------------- Spec
NoLast == [op |-> "none"]
\* The history of the caller's iterator: its kind ("live" from Iter, "snap" from
\* RIter), its comparator, the keys Key() gave after each successful Next of a
\* traversal from the start (fwd), whether no Next, Prev or End has succeeded yet
\* (fresh), whether Close was called and where the cursor was then (pos), and
\* in SpecCursor the call of Next, Prev, Rewind or End made before the last call
\* (prev).
NewHist(kind, f) ==
    [kind |-> kind, f |-> f, trace |-> <<>>, fwd |-> TRUE, fresh |-> TRUE,
     closed |-> FALSE, pos |-> 0, prev |-> NoLast]
NoHist == NewHist("none", "nil")
\* A thread that is not in a reading loop.
NoRead == [copy |-> EmptyMap, seen |-> EmptyMap, mid |-> FALSE]
\* The history of the CAS calls: the store the map began with, what each
\* thread's CAS was given, found and has done, and the keys a Set has written.
NewCalls(store) == [start |-> store, ret |-> [t \in Threads |-> NoLast], touched |-> {}]

\* The map holds `store`; no method is running, no iterator exists.
InitCalls(store, calls) ==
    /\ m = store
    /\ readers = 0 /\ wOwner = 0
    /\ pc = [t \in Threads |-> "idle"]
    /\ wl = [t \in Threads |-> NoArgs]
    /\ lit = [t \in Threads |-> ClosedIter]
    /\ rit = [t \in Threads |-> ClosedRIter]
    /\ litSnap = [t \in Threads |-> EmptyMap]
    /\ ritSnap = [t \in Threads |-> EmptyMap]
    /\ ops = 0 /\ used = 0
    /\ cl = EmptyMap /\ clRef = "none"
    /\ last = NoLast
    /\ lastSet = [k \in Keys |-> Zero]
    /\ hist = NoHist
    /\ cas = calls
    /\ rd = [t \in Threads |-> NoRead]

\* The state after New: no history of CAS calls is kept but in SpecCAS.
InitState(store) == InitCalls(store, NewCalls(EmptyMap))

\* The map is New(init) for some init.
Init == \E a \in Sources : InitState(New(a[1], a[2]))

Next ==
    \E t \in Threads :
        \/ MergeEmpty(t)
        \/ RLock(t) \/ IterLock(t) \/ IterKeysRLock(t)
        \/ Lock(t) \/ LockStart(t) \/ LockEnter(t)
        \/ Get(t) \/ MapLen(t) \/ KeysCall(t) \/ Raw(t) \/ Filter(t) \/ Clone(t)
        \/ RIter(t)
        \/ IterReturn(t) \/ IterClose(t)
        \/ Set(t) \/ CAS(t)
        \/ DeleteBegin(t) \/ DeleteStep(t) \/ DeleteEnd(t)
        \/ MergeBegin(t) \/ MergeStep(t) \/ MergeEnd(t)

Spec == Init /\ [][Next]_vars

\* --------------------------------------------------------- SpecFair
\* A step of a call that thread t has begun: the scheduler runs every goroutine
\* that can run, so no such step stays possible for ever without being taken.
Step(t) ==
    \/ IterKeysRLock(t) \/ LockStart(t) \/ LockEnter(t)
    \/ ReadBody(t) \/ IterReturn(t)
    \/ Set(t) \/ CAS(t)
    \/ DeleteBegin(t) \/ DeleteStep(t) \/ DeleteEnd(t)
    \/ MergeBegin(t) \/ MergeStep(t) \/ MergeEnd(t)

\* The callers may stop calling; a caller with an open Live Iterator that is
\* not inside a call closes it.
SpecFair ==
    /\ Spec
    /\ \A t \in Threads : WF_vars(Step(t)) /\ WF_vars(IterClose(t))

\* ---------------------------------------------------------- SpecMap
\* One caller, one map: each method runs from its lock call to its return as one
\* step, which Lock and RLock allow when nobody else holds s.mu. `last` keeps the
\* call, its arguments and result, and `pre`, the store before it.
LockFree == ReaderMayEnter /\ WriterMayStart /\ WriterMayEnter

\* The caller makes its next call once it has taken the result of the last one.
Returned == last = NoLast
Return ==
    /\ last # NoLast
    /\ last' = NoLast
    /\ UNCHANGED <<m, lockVars, pc, wl, iterVars, ops, used, cas, cl, clRef, lastSet, hist, rd>>

\* The predicates callers pass to Filter: v % k == 0, k % 2 == 0.
Predicates == {"vmodk", "keven"}
Pred(cb, k, v) == IF cb = "vmodk" THEN v % k = 0 ELSE k % 2 = 0

\* Filter: a new map with the entries cb accepts.
FilterBodyRejected(mp, cb) ==
    [k \in {x \in DOMAIN mp : ~Pred(cb, x, mp[x])} |-> mp[k]]
FilterBody(mp, cb) ==
    [k \in {x \in DOMAIN mp : Pred(cb, x, mp[x])} |-> mp[k]]

\* What a write does to the history lastSet: Set(k, v) records v for k; a Delete
\* of k or an overwriting Merge with k forgets it.
Forget(ks) == [k \in Keys |-> IF k \in ks THEN Zero ELSE lastSet[k]]
Range(seq) == {seq[i] : i \in DOMAIN seq}

DoGet ==
    /\ LockFree /\ Returned
    /\ \E k \in Keys : last' = [op |-> "Get", k |-> k, res |-> GetBody(m, k), pre |-> m]
    /\ UNCHANGED <<m, lockVars, pc, wl, iterVars, ops, used, cas, cl, clRef, lastSet, hist, rd>>

DoLen ==
    /\ LockFree /\ Returned
    /\ last' = [op |-> "Len", res |-> LenBody(m), pre |-> m]
    /\ UNCHANGED <<m, lockVars, pc, wl, iterVars, ops, used, cas, cl, clRef, lastSet, hist, rd>>

DoKeys ==
    /\ LockFree /\ Returned
    /\ \E order \in Perms(DOMAIN m) : last' = [op |-> "Keys", res |-> KeysBody(order), pre |-> m]
    /\ UNCHANGED <<m, lockVars, pc, wl, iterVars, ops, used, cas, cl, clRef, lastSet, hist, rd>>

DoRaw ==
    /\ LockFree /\ Returned
    /\ last' = [op |-> "Raw", res |-> RawBody(m), pre |-> m]
    /\ UNCHANGED <<m, lockVars, pc, wl, iterVars, ops, used, cas, cl, clRef, lastSet, hist, rd>>

DoFilter ==
    /\ LockFree /\ Returned
    /\ \E cb \in Predicates : last' = [op |-> "Filter", cb |-> cb, res |-> FilterBody(m, cb), pre |-> m]
    /\ UNCHANGED <<m, lockVars, pc, wl, iterVars, ops, used, cas, cl, clRef, lastSet, hist, rd>>

DoSet ==
    /\ LockFree /\ Returned
    /\ \E k \in Keys, v \in Vals :
           /\ m' = SetBody(m, k, v)
           /\ last' = [op |-> "Set", k |-> k, v |-> v, pre |-> m]
           /\ lastSet' = [lastSet EXCEPT ![k] = v]
    /\ UNCHANGED <<lockVars, pc, wl, iterVars, ops, used, cas, cl, clRef, hist, rd>>

DoCAS ==
    /\ LockFree /\ Returned
    /\ \E k \in Keys, v \in Vals :
           /\ m' = CASBody(m, k, v)
           /\ last' = [op |-> "CAS", k |-> k, v |-> v, res |-> CASResult(m, k), pre |-> m]
    /\ UNCHANGED <<lockVars, pc, wl, iterVars, ops, used, cas, cl, clRef, lastSet, hist, rd>>

DoDelete ==
    /\ LockFree /\ Returned
    /\ \E keys \in KeyLists :
           /\ m' = DeleteBody(m, keys)
           /\ last' = [op |-> "Delete", keys |-> keys, pre |-> m]
           /\ lastSet' = Forget(Range(keys))
    /\ UNCHANGED <<lockVars, pc, wl, iterVars, ops, used, cas, cl, clRef, hist, rd>>

DoMerge ==
    /\ LockFree /\ Returned
    /\ \E a \in Sources, overwrite \in BOOLEAN :
           /\ m' = MergeBody(m, a[1], overwrite, a[2])
           /\ last' = [op |-> "Merge", src |-> a[1], overwrite |-> overwrite, pre |-> m]
           /\ lastSet' = IF overwrite THEN Forget(DOMAIN a[1]) ELSE lastSet
    /\ UNCHANGED <<lockVars, pc, wl, iterVars, ops, used, cas, cl, clRef, hist, rd>>

NextMap ==
    \/ DoGet \/ DoLen \/ DoKeys \/ DoRaw \/ DoFilter
    \/ DoSet \/ DoCAS \/ DoDelete \/ DoMerge
    \/ Return

SpecMap == Init /\ [][NextMap]_vars

\* -------------------------------------------------------- SpecClone
\* One caller, the map s and the map Clone returned: each method runs as one
\* step on either of them. A map object reaches its entries through its field m;
\* clRef names the store the clone's m points to: "c", the store New allocated
\* with map[K]V{}, and `cl` is that store. `last` keeps the call, the map it was
\* made on and `other`, the entries of the other map before the call (for Clone:
\* of the source).
NewStoreShared == "s"
NewStoreRef == "c"

\* The entries of the clone, as its Get, Len and Raw see them.
CloneView == IF clRef = "s" THEN m ELSE cl

\* The entries of map `on` ("s" or "c"), and of the other one.
ViewOf(on) == IF on = "s" THEN m ELSE CloneView
OtherOf(on) == IF on = "s" THEN CloneView ELSE m

\* Map `on` gets the entries `new`: written through its field m.
WriteTo(on, new) ==
    IF on = "s" \/ clRef = "s"
    THEN m' = new /\ cl' = cl
    ELSE cl' = new /\ m' = m

\* Clone: RLock, New(s.m) (a fresh store, then an overwriting Merge of s.m into
\* it), RUnlock.
CloneCall ==
    /\ LockFree /\ Returned
    /\ \E order \in Perms(DOMAIN m) :
           /\ clRef' = NewStoreRef
           /\ IF NewStoreRef = "s"
              THEN m' = New(m, order) /\ cl' = cl
              ELSE cl' = New(m, order) /\ m' = m
    /\ last' = [op |-> "Clone", on |-> "s", other |-> m]
    /\ UNCHANGED <<lockVars, pc, wl, iterVars, ops, used, cas, lastSet, hist, rd>>

OnSet(on) ==
    /\ LockFree /\ Returned /\ clRef # "none"
    /\ \E k \in Keys, v \in Vals : WriteTo(on, SetBody(ViewOf(on), k, v))
    /\ last' = [op |-> "Set", on |-> on, other |-> OtherOf(on)]
    /\ UNCHANGED <<lockVars, pc, wl, iterVars, ops, used, cas, clRef, lastSet, hist, rd>>

OnCAS(on) ==
    /\ LockFree /\ Returned /\ clRef # "none"
    /\ \E k \in Keys, v \in Vals : WriteTo(on, CASBody(ViewOf(on), k, v))
    /\ last' = [op |-> "CAS", on |-> on, other |-> OtherOf(on)]
    /\ UNCHANGED <<lockVars, pc, wl, iterVars, ops, used, cas, clRef, lastSet, hist, rd>>

OnDelete(on) ==
    /\ LockFree /\ Returned /\ clRef # "none"
    /\ \E keys \in KeyLists : WriteTo(on, DeleteBody(ViewOf(on), keys))
    /\ last' = [op |-> "Delete", on |-> on, other |-> OtherOf(on)]
    /\ UNCHANGED <<lockVars, pc, wl, iterVars, ops, used, cas, clRef, lastSet, hist, rd>>

OnMerge(on) ==
    /\ LockFree /\ Returned /\ clRef # "none"
    /\ \E a \in Sources, overwrite \in BOOLEAN :
           WriteTo(on, MergeBody(ViewOf(on), a[1], overwrite, a[2]))
    /\ last' = [op |-> "Merge", on |-> on, other |-> OtherOf(on)]
    /\ UNCHANGED <<lockVars, pc, wl, iterVars, ops, used, cas, clRef, lastSet, hist, rd>>

NextClone ==
    \/ CloneCall
    \/ \E on \in {"s", "c"} : OnSet(on) \/ OnCAS(on) \/ OnDelete(on) \/ OnMerge(on)
    \/ Return

SpecClone == Init /\ [][NextClone]_vars

\* --------------------------------------------------------- SpecIter
\* One caller with one iterator at a time, each call of it one step whose result
\* `last` keeps until the caller takes it; the other threads' writing calls run
\* as one step each whenever s.mu lets them in. The iterators are made without a
\* comparator here: range's orders are all the orders a sort can give.
Caller == CHOOSE t \in Threads : \A u \in Threads : t <= u
It == lit[Caller]
RIt == rit[Caller]

\* The caller makes a new iterator when it has none or has closed the last one.
CanOpen == hist.kind = "none" \/ hist.closed

\* The history follows the traversals of a Live Iterator and of a Snapshot
\* Iterator made with a comparator: trace is what Key() gave after each
\* successful Next since Iter, RIter or Rewind, as long as no Prev or End came
\* between (fwd).
Sorted == hist.f # "nil"
Tracked == Sorted /\ hist.fwd

\* Iter(f), f one of the comparators F: both read locks are free to take (no writer is inside), Keys() copies
\* the keys in range's order, the sort follows, the first read hold is kept.
DoIter(F) ==
    /\ Returned /\ CanOpen
    /\ ReaderMayEnter
    /\ \E f \in F, order \in Perms(DOMAIN m) :
           /\ lit' = [lit EXCEPT ![Caller] = NewIter(SortedKeys(order, f))]
           /\ hist' = NewHist("live", f)
    /\ litSnap' = [litSnap EXCEPT ![Caller] = m]
    /\ readers' = readers + 1
    /\ UNCHANGED <<m, wOwner, pc, wl, rit, ritSnap, ops, used, cas, cl, clRef, last, lastSet, rd>>

\* sMapIter.Next, on an open or a closed iterator.
DoNext ==
    /\ Returned /\ hist.kind = "live"
    /\ lit' = [lit EXCEPT ![Caller] = ItNext(It, m)]
    /\ last' = [op |-> "Next", res |-> ItNextOk(It)]
    /\ hist' = IF ItNextOk(It)
               THEN [hist EXCEPT !.fresh = FALSE, !.trace = Append(@, ItKey(ItNext(It, m)).val)]
               ELSE hist
    /\ UNCHANGED <<m, lockVars, pc, wl, litSnap, rit, ritSnap, ops, used, cas, cl, clRef, lastSet, rd>>

DoKey ==
    /\ Returned /\ hist.kind = "live"
    /\ last' = [op |-> "Key", res |-> ItKey(It)]
    /\ UNCHANGED <<m, lockVars, pc, wl, iterVars, ops, used, cas, cl, clRef, lastSet, hist, rd>>

DoVal ==
    /\ Returned /\ hist.kind = "live"
    /\ last' = [op |-> "Val", res |-> ItVal(It)]
    /\ UNCHANGED <<m, lockVars, pc, wl, iterVars, ops, used, cas, cl, clRef, lastSet, hist, rd>>

\* sMapIter.Close, called once (a second call would unlock a lock not held).
DoClose ==
    /\ Returned /\ hist.kind = "live" /\ ~hist.closed
    /\ lit' = [lit EXCEPT ![Caller] = ItClose(It)]
    /\ litSnap' = [litSnap EXCEPT ![Caller] = EmptyMap]
    /\ readers' = readers - 1
    /\ hist' = [hist EXCEPT !.closed = TRUE, !.pos = It.i]
    /\ UNCHANGED <<m, wOwner, pc, wl, rit, ritSnap, ops, used, cas, cl, clRef, last, lastSet, rd>>

\* RIter(f), f one of the comparators F: Raw() copies the map under the read lock and releases it; the keys
\* of the copy in range's order, then the sort.
DoRIter(F) ==
    /\ Returned /\ CanOpen
    /\ ReaderMayEnter
    /\ \E f \in F, order \in Perms(DOMAIN RawBody(m)) :
           /\ rit' = [rit EXCEPT ![Caller] = NewRIter(RawBody(m), SortedKeys(order, f))]
           /\ hist' = NewHist("snap", f)
    /\ ritSnap' = [ritSnap EXCEPT ![Caller] = m]
    /\ UNCHANGED <<m, lockVars, pc, wl, lit, litSnap, ops, used, cas, cl, clRef, last, lastSet, rd>>

\* rIter.Next, Prev, Rewind, End, on an open or a closed iterator. A Prev or End
\* that succeeds ends the traversal from the start; Rewind begins one.
DoRNext ==
    /\ Returned /\ hist.kind = "snap"
    /\ rit' = [rit EXCEPT ![Caller] = RNext(RIt)]
    /\ last' = [op |-> "Next", res |-> RNextOk(RIt)]
    /\ hist' = IF RNextOk(RIt)
               THEN [hist EXCEPT !.fresh = FALSE,
                                 !.trace = IF Tracked THEN Append(@, RKey(RNext(RIt)).val) ELSE @]
               ELSE hist
    /\ UNCHANGED <<m, lockVars, pc, wl, lit, litSnap, ritSnap, ops, used, cas, cl, clRef, lastSet, rd>>

DoRPrev ==
    /\ Returned /\ hist.kind = "snap"
    /\ rit' = [rit EXCEPT ![Caller] = RPrev(RIt)]
    /\ last' = [op |-> "Prev", res |-> RPrevOk(RIt)]
    /\ hist' = IF RPrevOk(RIt)
               THEN [hist EXCEPT !.fresh = FALSE, !.fwd = ~Sorted, !.trace = <<>>]
               ELSE hist
    /\ UNCHANGED <<m, lockVars, pc, wl, lit, litSnap, ritSnap, ops, used, cas, cl, clRef, lastSet, rd>>

DoRRewind ==
    /\ Returned /\ hist.kind = "snap"
    /\ rit' = [rit EXCEPT ![Caller] = RRewind(RIt)]
    /\ last' = [op |-> "Rewind", res |-> RRewindOk(RIt)]
    /\ hist' = [hist EXCEPT !.fwd = TRUE, !.trace = <<>>]
    /\ UNCHANGED <<m, lockVars, pc, wl, lit, litSnap, ritSnap, ops, used, cas, cl, clRef, lastSet, rd>>

DoREnd ==
    /\ Returned /\ hist.kind = "snap"
    /\ rit' = [rit EXCEPT ![Caller] = REnd(RIt)]
    /\ last' = [op |-> "End", res |-> REndOk(RIt)]
    /\ hist' = IF REndOk(RIt)
               THEN [hist EXCEPT !.fresh = FALSE, !.fwd = ~Sorted, !.trace = <<>>]
               ELSE hist
    /\ UNCHANGED <<m, lockVars, pc, wl, lit, litSnap, ritSnap, ops, used, cas, cl, clRef, lastSet, rd>>

DoRKey ==
    /\ Returned /\ hist.kind = "snap"
    /\ last' = [op |-> "Key", res |-> RKey(RIt)]
    /\ UNCHANGED <<m, lockVars, pc, wl, iterVars, ops, used, cas, cl, clRef, lastSet, hist, rd>>

DoRVal ==
    /\ Returned /\ hist.kind = "snap"
    /\ last' = [op |-> "Val", res |-> RVal(RIt)]
    /\ UNCHANGED <<m, lockVars, pc, wl, iterVars, ops, used, cas, cl, clRef, lastSet, hist, rd>>

\* rIter.Close: it may be called again on a closed iterator.
DoRClose ==
    /\ Returned /\ hist.kind = "snap"
    /\ rit' = [rit EXCEPT ![Caller] = RClose(RIt)]
    /\ hist' = [hist EXCEPT !.closed = TRUE, !.pos = IF hist.closed THEN @ ELSE RIt.i]
    /\ UNCHANGED <<m, lockVars, pc, wl, lit, litSnap, ritSnap, ops, used, cas, cl, clRef, last, lastSet, rd>>

IterCalls(F) ==
    \/ DoIter(F) \/ DoNext \/ DoKey \/ DoVal \/ DoClose
    \/ DoRIter(F) \/ DoRNext \/ DoRPrev \/ DoRRewind \/ DoREnd \/ DoRKey \/ DoRVal \/ DoRClose

\* The other threads write between the caller's calls, and while the caller
\* holds on to a slice that Keys() gave it.
MayWrite == Returned \/ last.op = "Keys"

\* Another thread's Set, CAS, Delete or Merge, from Lock to Unlock: it gets in
\* when no read hold is out. Delete is called with one key here and Merge with
\* one entry: longer calls do to the map what a run of these does.
WSet ==
    /\ MayWrite /\ LockFree
    /\ \E k \in Keys, v \in Vals : m' = SetBody(m, k, v)
    /\ UNCHANGED <<lockVars, pc, wl, iterVars, ops, used, seqVars>>

WCAS ==
    /\ MayWrite /\ LockFree
    /\ \E k \in Keys, v \in Vals : m' = CASBody(m, k, v)
    /\ UNCHANGED <<lockVars, pc, wl, iterVars, ops, used, seqVars>>

WDelete ==
    /\ MayWrite /\ LockFree
    /\ \E keys \in {l \in KeyLists : Len(l) = 1} : m' = DeleteBody(m, keys)
    /\ UNCHANGED <<lockVars, pc, wl, iterVars, ops, used, seqVars>>

WMerge ==
    /\ MayWrite /\ LockFree
    /\ \E a \in {b \in Sources : Len(b[2]) = 1}, overwrite \in BOOLEAN :
           m' = MergeBody(m, a[1], overwrite, a[2])
    /\ UNCHANGED <<lockVars, pc, wl, iterVars, ops, used, seqVars>>

NextIter ==
    \/ IterCalls({"nil"})
    \/ WSet \/ WCAS \/ WDelete \/ WMerge
    \/ Return

SpecIter == Init /\ [][NextIter]_vars

\* --------------------------------------------------------- SpecKeys
\* The caller calls Keys and Len and keeps the slice Keys returned while the
\* other threads write to the map.
NextKeys ==
    \/ DoKeys \/ DoLen
    \/ WSet \/ WCAS \/ WDelete \/ WMerge
    \/ Return

SpecKeys == Init /\ [][NextKeys]_vars

\* ------------------------------------------------------- SpecFilter
\* The one caller of SpecMap, on the maps within the bound and on the map of
\* testFilterKV.
FilterExample ==
    [k \in {1, 3, 5, 8, 9} |->
        CASE k = 1 -> 1 [] k = 3 -> 2 [] k = 5 -> 10 [] k = 8 -> 64 [] OTHER -> 24]
FilterExpect == [k \in {1, 5, 8} |-> CASE k = 1 -> 1 [] k = 5 -> 10 [] OTHER -> 64]

InitFilter ==
    \/ Init
    \/ \E order \in Perms(DOMAIN FilterExample) : InitState(New(FilterExample, order))

SpecFilter == InitFilter /\ [][NextMap]_vars

\* ------------------------------------------------------- SpecCursor
\* The caller alone with a Snapshot Iterator, its calls one after the other.
\* When the caller takes the result of a Next, Prev, Rewind or End, the history
\* notes the call, its result and the cursor and current key it left.
ReturnNoted ==
    /\ last # NoLast
    /\ last' = NoLast
    /\ hist' = IF last.op \in {"Next", "Prev", "Rewind", "End"}
               THEN [hist EXCEPT !.prev = [op |-> last.op, res |-> last.res,
                                           i |-> RIt.i, k |-> RIt.k, v |-> RIt.v]]
               ELSE hist
    /\ UNCHANGED <<m, lockVars, pc, wl, iterVars, ops, used, cas, cl, clRef, lastSet, rd>>

NextCursor ==
    \/ DoRIter(Comparators)
    \/ DoRNext \/ DoRPrev \/ DoRRewind \/ DoREnd
    \/ DoRKey \/ DoRVal \/ DoRClose
    \/ ReturnNoted

SpecCursor == Init /\ [][NextCursor]_vars

\* --------------------------------------------------------- SpecSort
\* The caller's traversals with a comparator, over the maps within the bound
\* and over the map of TestIterWithSort; nobody writes.
ExampleKeys == {21, 1, 3, 2, 15, 11}
ExampleMap == [k \in ExampleKeys |-> MaxVal]
ExampleSorted == <<1, 2, 3, 11, 15, 21>>

InitSort ==
    \/ Init
    \/ \E order \in Perms(ExampleKeys) : InitState(New(ExampleMap, order))

NextSort ==
    \/ IterCalls(Comparators \ {"nil"})
    \/ Return

SpecSort == InitSort /\ [][NextSort]_vars

\* ------------------------------------------------------ SpecCAS: CAS by threads
\* The threads call CAS, each once at most, Set and Get, all through s.mu. CAS
\* holds the lock from its Lock() to the deferred Unlock(); in between it first
\* looks the key up and then stores or returns.
\* `if _, ok := s.m[k]; ok`: the call's arguments and what it found.
CASLook(t) ==
    /\ pc[t] = "wcs" /\ cas.ret[t] = NoLast
    /\ \E k \in Keys, v \in Vals :
           cas' = [cas EXCEPT !.ret[t] = [op |-> "CAS", k |-> k, v |-> v,
                                          res |-> CASResult(m, k), done |-> FALSE]]
    /\ pc' = [pc EXCEPT ![t] = "cas"]
    /\ UNCHANGED <<m, lockVars, wl, iterVars, ops, used, cl, clRef, last, lastSet, hist, rd>>

\* `return false`, or `s.m[k] = v; return true`; then the deferred Unlock.
CASStore(t) ==
    /\ pc[t] = "cas"
    /\ m' = IF cas.ret[t].res THEN Store(m, cas.ret[t].k, cas.ret[t].v) ELSE m
    /\ cas' = [cas EXCEPT !.ret[t].done = TRUE]
    /\ Unlock(t)
    /\ UNCHANGED <<wl, iterVars, ops, used, cl, clRef, last, lastSet, hist, rd>>

\* Set, its key noted. What matters of a Set here is the key it writes, so the
\* Sets of SpecCAS all store one value.
SetNoted(t) ==
    /\ pc[t] = "wcs"
    /\ \E k \in Keys :
           /\ m' = SetBody(m, k, MaxVal)
           /\ cas' = [cas EXCEPT !.touched = @ \cup {k}]
    /\ Unlock(t)
    /\ UNCHANGED <<wl, iterVars, ops, used, cl, clRef, last, lastSet, hist, rd>>

NextCAS ==
    \E t \in Threads :
        \/ RLock(t) \/ Get(t)
        \/ Lock(t) \/ LockStart(t) \/ LockEnter(t)
        \/ CASLook(t) \/ CASStore(t)
        \/ SetNoted(t)

\* The map starts with any set of keys; what matters of a key here is whether
\* the map has it, so the keys it has all hold one value.
InitCAS ==
    \E S \in SUBSET Keys : \E order \in Perms(S) :
        InitCalls(New([k \in S |-> MaxVal], order), NewCalls(New([k \in S |-> MaxVal], order)))

SpecCAS == InitCAS /\ [][NextCAS]_vars

\* ------------------------------------------- SpecAtomic: the reading loops
\* The threads call Merge, Delete, the copying readers (Raw, Keys, Filter, Clone,
\* RIter through Raw) and Iter, all through s.mu. A reader's `for k, v := range
\* s.m` runs one entry at a time, as the loops of Merge and Delete do.
\* The threads inside the loop of a Merge or a Delete.
Mutating == {t \in Threads : pc[t] \in {"dloop", "mloop"}}

\* The reader holds the read lock and enters its loop: `ret := make(...)`.
\* Keys called by Iter (pc "kcs") does the same under Iter's own hold.
ReadBegin(t) ==
    /\ pc[t] \in {"rcs", "kcs"}
    /\ pc' = [pc EXCEPT ![t] = IF pc[t] = "rcs" THEN "rloop" ELSE "kloop"]
    /\ rd' = [rd EXCEPT ![t] = [copy |-> EmptyMap, seen |-> m, mid |-> Mutating # {}]]
    /\ UNCHANGED <<m, lockVars, wl, iterVars, ops, used, cl, clRef, last, lastSet, hist, cas>>

\* One round of the loop: range hands out an entry of s.m not handed out yet.
ReadStep(t) ==
    /\ pc[t] \in {"rloop", "kloop"}
    /\ \E k \in DOMAIN m \ DOMAIN rd[t].copy :
           rd' = [rd EXCEPT ![t].copy = Store(@, k, m[k])]
    /\ UNCHANGED <<m, lockVars, pc, wl, iterVars, ops, used, cl, clRef, last, lastSet, hist, cas>>

\* range has nothing left to hand out.
Exhausted(t) == DOMAIN m \subseteq DOMAIN rd[t].copy

\* range is exhausted: RUnlock, and the copy goes to the caller.
ReadEnd(t) ==
    /\ pc[t] = "rloop" /\ Exhausted(t)
    /\ RUnlock(t)
    /\ rd' = [rd EXCEPT ![t] = NoRead]
    /\ UNCHANGED <<m, wOwner, wl, iterVars, ops, used, cl, clRef, last, lastSet, hist, cas>>

\* Keys returns to Iter, its own hold released; Iter sorts the keys and returns
\* the iterator, which keeps the hold of iter.l.Lock().
IterBuilt(t) ==
    /\ pc[t] = "kloop" /\ Exhausted(t)
    /\ RUnlock(t)
    /\ \E order \in Perms(DOMAIN rd[t].copy) :
           lit' = [lit EXCEPT ![t] = NewIter(SortedKeys(order, "lt"))]
    /\ litSnap' = [litSnap EXCEPT ![t] = m]
    /\ rd' = [rd EXCEPT ![t] = NoRead]
    /\ UNCHANGED <<m, wOwner, wl, rit, ritSnap, ops, used, cl, clRef, last, lastSet, hist, cas>>

NextAtomic ==
    \E t \in Threads :
        \/ RLock(t) \/ IterLock(t) \/ IterKeysRLock(t)
        \/ ReadBegin(t) \/ ReadStep(t) \/ ReadEnd(t)
        \/ IterBuilt(t) \/ IterClose(t)
        \/ Lock(t) \/ LockStart(t) \/ LockEnter(t)
        \/ DeleteBegin(t) \/ DeleteStep(t) \/ DeleteEnd(t)
        \/ MergeBegin(t) \/ MergeStep(t) \/ MergeEnd(t)

\* The map starts with any set of keys, all holding one value: a Merge that
\* overwrites with another value, or a Delete, then shows in every entry it has
\* reached.
InitAtomic ==
    \E S \in SUBSET Keys : \E order \in Perms(S) : InitState(New([k \in S |-> MaxVal], order))

SpecAtomic == InitAtomic /\ [][NextAtomic]_vars

\* ------------------------------------------------------ Spec: claims
\* Where a thread is by its place in the code: inside a mutating critical section
\* (between s.mu.Lock() and s.mu.Unlock() of Set, CAS, Delete, Merge), inside a
\* reading one (between RLock and RUnlock, Iter's included), or the holder of an
\* open Live Iterator (Iter returned, Close not called).
InWrite == {t \in Threads : pc[t] \in {"wcs", "dloop", "mloop"}}
InRead == {t \in Threads : pc[t] \in {"rcs", "ikeys", "kwait", "kcs"}}
IterOpen == {t \in Threads : lit[t].m = "s"}

\* C1: at most one thread is inside a mutating critical section, and while one
\* is, no thread is inside a reading critical section and no Live Iterator is open.
C1_MutualExclusion ==
    /\ Cardinality(InWrite) <= 1
    /\ InWrite # {} => InRead = {} /\ IterOpen = {}

\* A writer is in the middle of its loop while a reader sleeps in RLock and a
\* second writer queues in Lock.
C1_Witness ==
    \E t, u, w \in Threads :
        /\ pc[t] \in {"dloop", "mloop"}
        /\ pc[u] = "rwait"
        /\ pc[w] = "lock"

\* C2: while a Live Iterator is open the store is what it was when Iter returned,
\* and no writer is past its Lock: the writers are still waiting.
C2_IterBlocksWriters ==
    \A t \in IterOpen : m = litSnap[t] /\ InWrite = {}

\* A Live Iterator is open and a writer sleeps in Lock, waiting for its Close.
C2_Witness ==
    \E t, u \in Threads : lit[t].m = "s" /\ pc[u] = "wwait"

\* --------------------------------------------------- SpecMap: claims
\* C3: a Get(k) made while Set(k, v) is the last write of k (no Delete of k, no
\* other Set of k, no overwriting Merge with k since) returns (v, true), and a
\* Get of a key that is not in the store returns present = false (with the zero
\* value; Get has no error result).
C3_GetAfterSet ==
    last.op = "Get" =>
        /\ lastSet[last.k] # Zero => last.res = [v |-> lastSet[last.k], ok |-> TRUE]
        /\ last.k \notin DOMAIN m => last.res = [v |-> Zero, ok |-> FALSE]

\* A Get of a key whose Set is still the last write of it, in a store that has
\* seen another key added since.
C3_Witness ==
    /\ last.op = "Get" /\ lastSet[last.k] # Zero
    /\ \E k \in DOMAIN m : k # last.k /\ lastSet[k] = Zero

\* C4: CAS(k, v) with k present returns false and leaves the whole store as it
\* was; with k absent it returns true, Get(k) then returns (v, true) and the
\* other entries are as they were.
C4_CAS ==
    last.op = "CAS" =>
        IF last.k \in DOMAIN last.pre
        THEN last.res = FALSE /\ m = last.pre
        ELSE /\ last.res = TRUE
             /\ GetBody(m, last.k) = [v |-> last.v, ok |-> TRUE]
             /\ DOMAIN m = DOMAIN last.pre \cup {last.k}
             /\ \A k \in DOMAIN last.pre : m[k] = last.pre[k]

\* A CAS on a present key with a value other than the stored one.
C4_Witness ==
    last.op = "CAS" /\ last.k \in DOMAIN last.pre /\ last.pre[last.k] # last.v

\* C5: Merge(src, false) keeps the value of every key the destination had and
\* adds exactly the absent keys of src with src's values; Merge(src, true) makes
\* the destination agree with src on every key of src; both leave the keys
\* outside src alone, and an empty src changes nothing.
C5_Merge ==
    last.op = "Merge" =>
        /\ DOMAIN m = DOMAIN last.pre \cup DOMAIN last.src
        /\ \A k \in DOMAIN last.pre \ DOMAIN last.src : m[k] = last.pre[k]
        /\ ~last.overwrite => \A k \in DOMAIN last.pre : m[k] = last.pre[k]
        /\ ~last.overwrite => \A k \in DOMAIN last.src \ DOMAIN last.pre : m[k] = last.src[k]
        /\ last.overwrite => \A k \in DOMAIN last.src : m[k] = last.src[k]
        /\ DOMAIN last.src = {} => m = last.pre

\* A non-overwriting Merge whose source has a key the destination holds with
\* another value, and a key the destination lacks.
C5_Witness ==
    /\ last.op = "Merge" /\ ~last.overwrite
    /\ \E k \in DOMAIN last.src \cap DOMAIN last.pre : last.src[k] # last.pre[k]
    /\ DOMAIN last.src \ DOMAIN last.pre # {}

\* ------------------------------------------------- SpecClone: claims
\* C6: right after Clone the clone's entries are the source's at the call, and
\* the source is untouched; from then on a Set, CAS, Delete or Merge on the
\* source leaves the clone's entries (what its Get, Len and Raw return) as they
\* were, and one on the clone leaves the source's entries as they were.
C6_CloneIndependent ==
    last.op # "none" =>
        /\ last.op = "Clone" => CloneView = last.other /\ m = last.other
        /\ last.op # "Clone" => OtherOf(last.on) = last.other

\* The source has lost a key by a Delete after Clone, and the clone still has it.
C6_Witness ==
    /\ last.op = "Delete" /\ last.on = "s"
    /\ \E k \in DOMAIN CloneView : k \notin DOMAIN m

\* -------------------------------------------------- SpecIter: claims
\* The caller's iterator and the store as it was when the iterator was made.
Cur == IF hist.kind = "live" THEN It ELSE RIt
Snap == IF hist.kind = "live" THEN litSnap[Caller] ELSE ritSnap[Caller]
IsOpen(kind) == hist.kind = kind /\ ~hist.closed

\* C7: an open Snapshot Iterator holds every key the store had when RIter was
\* called, each once; a Next, Prev or End that succeeds yields the key at the
\* cursor with the value it had at that moment, whatever was written to the
\* source since; Next fails only when all keys have been passed; and s.mu is
\* free, so a writer's Lock returns at once.
C7_SnapshotIsolation ==
    IsOpen("snap") =>
        /\ Len(RIt.keys) = Cardinality(DOMAIN Snap) /\ Range(RIt.keys) = DOMAIN Snap
        /\ last.op \in {"Next", "Prev", "End"} /\ last.res = TRUE =>
               /\ RKey(RIt) = [val |-> RIt.keys[IF last.op = "Next" THEN RIt.i ELSE RIt.i + 1],
                               err |-> NoErr]
               /\ RIt.k \in DOMAIN Snap
               /\ RVal(RIt) = [val |-> Lookup(Snap, RIt.k), err |-> NoErr]
        /\ last.op = "Next" /\ last.res = FALSE => RIt.i = Cardinality(DOMAIN Snap)
        /\ readers = 0 /\ wOwner = 0

\* Next has just yielded a key that a Delete took out of the source after RIter.
C7_Witness ==
    /\ IsOpen("snap")
    /\ last.op = "Next" /\ last.res = TRUE
    /\ RIt.k \notin DOMAIN m
    /\ RVal(RIt).val = Lookup(Snap, RIt.k)

\* C8: once Close has been called, on either kind of iterator and wherever the
\* cursor was, every Next, Prev, Rewind and End returns false and every Key and
\* Val returns the zero value with the error "iterator closed".
C8_ClosedIterator ==
    hist.closed =>
        /\ last.op \in {"Next", "Prev", "Rewind", "End"} => last.res = FALSE
        /\ last.op \in {"Key", "Val"} => last.res = [val |-> Zero, err |-> ErrClosed]
        /\ ~ItNextOk(It) /\ ~RNextOk(RIt) /\ ~RPrevOk(RIt) /\ ~RRewindOk(RIt) /\ ~REndOk(RIt)

\* A Snapshot Iterator closed with its cursor past the start, then Prev called.
C8_Witness == hist.closed /\ hist.kind = "snap" /\ hist.pos > 0 /\ last.op = "Prev"

\* C9 as the specification has it: Key and Val give the error exactly when the
\* iterator is closed or no Next, Prev or End has succeeded on it yet.
C9_ErrorBeforePositioning ==
    last.op \in {"Key", "Val"} =>
        (last.res.err = ErrClosed <=> hist.fresh \/ hist.closed)

\* C9: Key and Val give the error "iterator closed" exactly when Close has been
\* called. On an open iterator they give no error: the zero value until a Next,
\* Prev or End has succeeded, then the key loaded last and the value the store
\* had for it.
C9_KeyValErrors ==
    last.op \in {"Key", "Val"} =>
        /\ last.res.err = ErrClosed <=> hist.closed
        /\ hist.closed \/ hist.fresh => last.res.val = Zero
        /\ ~hist.closed /\ ~hist.fresh =>
               /\ last.res.err = NoErr
               /\ Cur.k \in DOMAIN Snap
               /\ last.res.val = IF last.op = "Key" THEN Cur.k ELSE Snap[Cur.k]

\* Key called on a Live Iterator over a non-empty map, before any Next.
C9_Witness ==
    /\ IsOpen("live") /\ hist.fresh /\ It.keys # <<>>
    /\ last.op = "Key" /\ last.res = [val |-> Zero, err |-> NoErr]

\* -------------------------------------------------- SpecSort: claims
\* C10: in a traversal of an iterator made by Iter or RIter with the comparator
\* a < b or a > b, the keys Key() gives after the successive successful Next
\* calls are keys of the map, each before the next in the comparator's order and
\* before every key not given yet; when Next fails they are all the map's keys:
\* the sorted list, which for the keys {21, 1, 3, 2, 15, 11} and a < b is
\* [1, 2, 3, 11, 15, 21], in whatever order range enumerated the map.
C10_SortedTraversal ==
    hist.kind # "none" /\ ~hist.closed /\ Tracked =>
        /\ Len(hist.trace) = Cur.i
        /\ Range(hist.trace) \subseteq DOMAIN Snap
        /\ \A i, j \in 1..Len(hist.trace) : i < j => Cmp(hist.f, hist.trace[i], hist.trace[j])
        /\ \A i \in 1..Len(hist.trace) : \A k \in DOMAIN Snap \ Range(hist.trace) :
               Cmp(hist.f, hist.trace[i], k)
        /\ last.op = "Next" /\ last.res = FALSE =>
               /\ Range(hist.trace) = DOMAIN Snap
               /\ DOMAIN Snap = ExampleKeys /\ hist.f = "lt" => hist.trace = ExampleSorted

\* The traversal of TestIterWithSort, at the Next that fails.
C10_Witness ==
    /\ IsOpen("live") /\ hist.f = "lt"
    /\ DOMAIN m = ExampleKeys
    /\ last.op = "Next" /\ last.res = FALSE
    /\ hist.trace = ExampleSorted

\* C11: an open Live Iterator holds every key the store had at Iter, each once,
\* and the store is still as it was then, whatever the other threads call; the
\* keys Key() gave after the successful Next calls are the first of these, one
\* per call; after a successful Next, (Key(), Val()) is the entry of that store
\* at the cursor; Next fails exactly when all n keys have been given, and a Next
\* that failed leaves the iterator as it was, on the last entry given.
C11_LiveTraversal ==
    IsOpen("live") =>
        /\ Len(It.keys) = Cardinality(DOMAIN Snap) /\ Range(It.keys) = DOMAIN Snap
        /\ m = Snap
        /\ hist.trace = SubSeq(It.keys, 1, Len(hist.trace))
        /\ Len(hist.trace) <= Cardinality(DOMAIN Snap)
        /\ last.op = "Next" /\ last.res = TRUE =>
               /\ ItKey(It) = [val |-> hist.trace[Len(hist.trace)], err |-> NoErr]
               /\ ItVal(It) = [val |-> Lookup(Snap, ItKey(It).val), err |-> NoErr]
               /\ ItKey(It).val \in DOMAIN Snap
        /\ last.op = "Next" /\ last.res = FALSE =>
               /\ Len(hist.trace) = Cardinality(DOMAIN Snap)
               /\ ~ItNextOk(It) /\ ItNext(It, m) = It
               /\ hist.trace # <<>> =>
                      /\ ItKey(It) = [val |-> hist.trace[Len(hist.trace)], err |-> NoErr]
                      /\ ItVal(It) = [val |-> Lookup(Snap, ItKey(It).val), err |-> NoErr]

\* A Live Iterator over at least two keys, all given, at the Next that fails.
C11_Witness ==
    /\ IsOpen("live")
    /\ last.op = "Next" /\ last.res = FALSE
    /\ Len(hist.trace) = MaxKey

\* ----------------------------------------------- Spec: more claims
\* The threads asleep in RLock: in a reading method, in Iter, in Iter's Keys().
ReadersWaiting == {t \in Threads : pc[t] \in {"rwait", "iwait", "kwait"}}

\* C12 as the specification has it: while a Live Iterator is open no reading
\* call and no Iter of another thread has to wait.
C12_ReadersNeverWait == IterOpen # {} => ReadersWaiting = {}

\* C12: a reading call or an Iter waits only while a writer is inside Lock() ..
\* Unlock(), be it asleep in Lock; while a Live Iterator is open and no writer
\* has called Lock, no reader waits.
C12_ReadersWaitForWriterOnly ==
    /\ ReadersWaiting # {} => wOwner \in Threads /\ pc[wOwner] \in {"wwait", "wcs", "dloop", "mloop"}
    /\ IterOpen # {} /\ wOwner = 0 => ReadersWaiting = {}

\* A Live Iterator is open, a writer sleeps in Lock behind it, and a reading
\* call or Iter of a third thread sleeps behind the writer.
C12_Witness ==
    \E t, u, w \in Threads :
        /\ lit[t].m = "s" /\ pc[u] = "wwait"
        /\ pc[w] \in {"rwait", "iwait"}

\* -------------------------------------------------- SpecKeys: claims
\* C13: the slice Keys returned has as many elements as Len returns on the store
\* Keys read, no key twice, and exactly the keys of that store; it stays so
\* while the store is written to afterwards.
C13_Keys ==
    last.op = "Keys" =>
        /\ Len(last.res) = LenBody(last.pre)
        /\ \A i, j \in 1..Len(last.res) : last.res[i] = last.res[j] => i = j
        /\ Range(last.res) = DOMAIN last.pre

\* The caller holds the keys of a store of two or more keys, one of which has
\* been deleted since.
C13_Witness ==
    /\ last.op = "Keys" /\ Len(last.res) = MaxKey
    /\ \E i \in 1..Len(last.res) : last.res[i] \notin DOMAIN m

\* ------------------------------------------------ SpecFilter: claims
\* C14: the map Filter returned holds exactly the entries of the store that the
\* predicate accepts, with their values, and the store is as it was; for the
\* store {1:1, 3:2, 5:10, 8:64, 9:24} and v % k == 0 it is {1:1, 5:10, 8:64};
\* for an empty store it is empty.
C14_Filter ==
    last.op = "Filter" =>
        /\ DOMAIN last.res = {k \in DOMAIN last.pre : Pred(last.cb, k, last.pre[k])}
        /\ \A k \in DOMAIN last.res : last.res[k] = last.pre[k]
        /\ m = last.pre
        /\ last.pre = FilterExample /\ last.cb = "vmodk" => last.res = FilterExpect
        /\ last.pre = EmptyMap => last.res = EmptyMap

\* The call of testFilterKV.
C14_Witness ==
    /\ last.op = "Filter" /\ last.cb = "vmodk"
    /\ last.pre = FilterExample /\ last.res = FilterExpect

\* --------------------------------------------- SpecMap: more claims
\* C15: after Delete(keys...) the store has lost exactly the given keys that
\* were present and every other entry is as it was; Get of each given key
\* returns (zero, false); Len is smaller by the number of distinct given keys
\* that were present; an empty list changes nothing.
C15_Delete ==
    last.op = "Delete" =>
        /\ DOMAIN m = DOMAIN last.pre \ Range(last.keys)
        /\ \A k \in DOMAIN m : m[k] = last.pre[k]
        /\ \A k \in Range(last.keys) : GetBody(m, k) = [v |-> Zero, ok |-> FALSE]
        /\ LenBody(m) = LenBody(last.pre) - Cardinality(Range(last.keys) \cap DOMAIN last.pre)
        /\ last.keys = <<>> => m = last.pre

\* A Delete of a key that was absent and then of one that was present.
C15_Witness ==
    /\ last.op = "Delete" /\ Len(last.keys) = MaxArgs
    /\ Head(last.keys) \notin DOMAIN last.pre
    /\ last.keys[Len(last.keys)] \in DOMAIN last.pre

\* ------------------------------------------------- SpecFair: claims
\* C16 as the specification has it: if every Live Iterator that is opened is
\* closed at some time, every call that a thread has begun returns.
C16_EveryCallReturns ==
    (\A t \in Threads : [](lit[t].m = "s" => <>(lit[t].m = "nil")))
        => (\A t \in Threads : (pc[t] # "idle") ~> (pc[t] = "idle"))

\* ------------------------------------------------ SpecCursor: claims
\* The number of keys of the open Snapshot Iterator; the call before the last
\* was `op` and succeeded, and the last call is `then`.
NKeys == Len(RIt.keys)
After(op, then) ==
    /\ IsOpen("snap")
    /\ hist.prev.op = op /\ hist.prev.res = TRUE
    /\ last.op = then

\* C17 as the specification has it: a Prev right after a successful Next that
\* gave the key at a position other than the first succeeds and gives the key
\* one position before; a Next right after a successful Prev that gave the key
\* at a position other than the last gives the key one position after.
C17_StepsByOnePosition ==
    /\ After("Next", "Prev") /\ hist.prev.i > 1 =>
           last.res = TRUE /\ RKey(RIt).val = RIt.keys[hist.prev.i - 1]
    /\ After("Prev", "Next") /\ hist.prev.i + 1 < NKeys =>
           last.res = TRUE /\ RKey(RIt).val = RIt.keys[hist.prev.i + 2]

\* C17: the cursor lies between two keys. A successful Next gives the key behind
\* the cursor and moves the cursor over it; a successful Prev moves the cursor
\* back over a key and gives that key. So a Prev right after a successful Next
\* succeeds and gives the same key again, and so does a Next right after a
\* successful Prev; two calls of the same kind give keys one position apart.
C17_CursorBetweenKeys ==
    /\ After("Next", "Prev") =>
           last.res = TRUE /\ RKey(RIt).val = hist.prev.k /\ RIt.i = hist.prev.i - 1
    /\ After("Prev", "Next") =>
           last.res = TRUE /\ RKey(RIt).val = hist.prev.k /\ RIt.i = hist.prev.i + 1
    /\ After("Next", "Next") /\ last.res = TRUE =>
           /\ hist.prev.k = RIt.keys[hist.prev.i]
           /\ RKey(RIt).val = RIt.keys[hist.prev.i + 1]
    /\ After("Prev", "Prev") /\ last.res = TRUE =>
           /\ hist.prev.k = RIt.keys[hist.prev.i + 1]
           /\ RKey(RIt).val = RIt.keys[hist.prev.i]

\* Next gave the second key or a later one, and Prev was called right after.
C17_Witness == After("Next", "Prev") /\ hist.prev.i > 1 /\ last.res = TRUE

\* C18 as the specification has it: End on an open Snapshot Iterator returns
\* true exactly when there are keys and then leaves Key and Val on the last
\* entry; the Next right after it returns false; the Prev calls after it give
\* the keys before the last, one position down each time.
C18_EndAtBoundary ==
    IsOpen("snap") =>
        /\ last.op = "End" =>
               /\ last.res = (NKeys > 0)
               /\ last.res = TRUE =>
                      /\ RKey(RIt) = [val |-> RIt.keys[NKeys], err |-> NoErr]
                      /\ RVal(RIt) = [val |-> Lookup(Snap, RIt.keys[NKeys]), err |-> NoErr]
        /\ After("End", "Next") => last.res = FALSE
        /\ After("End", "Prev") /\ last.res = TRUE => RKey(RIt).val = RIt.keys[NKeys - 1]
        /\ After("Prev", "Prev") /\ last.res = TRUE => RKey(RIt).val = RIt.keys[hist.prev.i]

\* C18: End, wherever the cursor was, returns true exactly when there are keys
\* and then leaves Key and Val on the last entry, with the cursor in front of
\* it: the Next right after it succeeds and gives the last entry again; a Prev
\* right after it succeeds exactly when there is a key before the last, and
\* gives it; each further successful Prev gives the key one position down, and
\* Prev fails only with the cursor at the start.
C18_EndBeforeLast ==
    IsOpen("snap") =>
        /\ last.op = "End" =>
               /\ last.res = (NKeys > 0)
               /\ last.res = TRUE =>
                      /\ RKey(RIt) = [val |-> RIt.keys[NKeys], err |-> NoErr]
                      /\ RVal(RIt) = [val |-> Lookup(Snap, RIt.keys[NKeys]), err |-> NoErr]
                      /\ RIt.i = NKeys - 1
        /\ After("End", "Next") =>
               /\ last.res = TRUE
               /\ RKey(RIt) = [val |-> RIt.keys[NKeys], err |-> NoErr]
               /\ ~RNextOk(RIt)
        /\ After("End", "Prev") =>
               /\ last.res = (NKeys > 1)
               /\ last.res = TRUE => RKey(RIt).val = RIt.keys[NKeys - 1]
        /\ After("Prev", "Prev") /\ last.res = TRUE => RKey(RIt).val = RIt.keys[hist.prev.i]
        /\ last.op = "Prev" /\ last.res = FALSE => RIt.i = 0

\* End on an iterator over all the keys of the bound, then Next: it succeeded.
C18_Witness == After("End", "Next") /\ NKeys = MaxKey /\ last.res = TRUE

\* The cursor and the current element as the cursor call before the last one
\* left them; those of a new iterator when there was none.
Before ==
    IF hist.prev = NoLast THEN [i |-> 0, k |-> Zero, v |-> Zero]
    ELSE [i |-> hist.prev.i, k |-> hist.prev.k, v |-> hist.prev.v]
Unmoved == RIt.i = Before.i /\ RIt.k = Before.k /\ RIt.v = Before.v

\* C19: on an open Snapshot Iterator, the Next calls made since RIter or since
\* the last Rewind have yielded the keys in front of the cursor, each once and
\* in key order: a Next succeeds exactly while keys are left, the one after
\* the n-th returns false and leaves cursor, key and value as they were; a Prev
\* with the cursor at the start returns false and leaves them as they were;
\* Rewind, wherever the cursor was, returns true exactly when there are keys and
\* puts the cursor at the start, so that the next Next yields the first key.
C19_TraversalAndRewind ==
    IsOpen("snap") =>
        /\ Tracked => hist.trace = SubSeq(RIt.keys, 1, RIt.i)
        /\ last.op = "Next" =>
               /\ last.res = (Before.i < NKeys)
               /\ last.res = TRUE => RIt.i = Before.i + 1 /\ RKey(RIt).val = RIt.keys[RIt.i]
               /\ last.res = FALSE => Unmoved /\ (Tracked => hist.trace = RIt.keys)
        /\ last.op = "Prev" /\ Before.i = 0 => last.res = FALSE /\ Unmoved
        /\ last.op = "Rewind" =>
               /\ last.res = (NKeys > 0)
               /\ RIt.i = 0 /\ RIt.k = Before.k /\ RIt.v = Before.v
        /\ After("Rewind", "Next") =>
               /\ last.res = TRUE
               /\ RKey(RIt) = [val |-> RIt.keys[1], err |-> NoErr]
               /\ RVal(RIt) = [val |-> Lookup(Snap, RIt.keys[1]), err |-> NoErr]

\* A sorted iterator over all the keys of the bound was walked from the start
\* to the end: the Next after the last key has returned false.
C19_Witness ==
    /\ IsOpen("snap") /\ Tracked /\ ~hist.fresh
    /\ NKeys = MaxKey /\ hist.trace = RIt.keys
    /\ last.op = "Next" /\ last.res = FALSE

\* The threads whose CAS(k, ...) has returned, and those it returned true to.
CASDone(k) == {t \in Threads : cas.ret[t] # NoLast /\ cas.ret[t].k = k /\ cas.ret[t].done}
CASWon(k) == {t \in CASDone(k) : cas.ret[t].res}

\* C20: for a key the map did not have at first and no Set has written, of the
\* CAS calls on it that have returned, whatever way the threads ran, exactly
\* one returned true, and the key holds the value that call passed.
C20_CASAtomic ==
    \A k \in Keys :
        k \notin DOMAIN cas.start /\ k \notin cas.touched /\ CASDone(k) # {} =>
            /\ Cardinality(CASWon(k)) = 1
            /\ \A w \in CASWon(k) : k \in DOMAIN m /\ m[k] = cas.ret[w].v

\* Two threads' CAS calls on one key the map did not have, with different
\* values, have returned: one of them true, one false.
C20_Witness ==
    \E k \in Keys, t, u \in Threads :
        /\ k \notin DOMAIN cas.start /\ k \notin cas.touched
        /\ t \in CASWon(k) /\ u \in CASDone(k) \ CASWon(k)
        /\ cas.ret[t].v # cas.ret[u].v

\* The threads inside a reading loop.
Reading == {t \in Threads : pc[t] \in {"rloop", "kloop"}}

\* C21: while a reader (Raw, Keys, Filter, Clone, RIter, or the Keys of Iter)
\* copies the store, no Merge and no Delete is inside its loop, none was when
\* the reader began, and the store stays what it was then; so what the reader
\* has copied is part of that one store, and what it returns is that store:
\* each Merge and each Delete is in it as a whole or not at all.
C21_ReadersSeeWholeMutations ==
    \A t \in Reading :
        /\ Mutating = {} /\ ~rd[t].mid
        /\ m = rd[t].seen
        /\ \A k \in DOMAIN rd[t].copy : k \in DOMAIN rd[t].seen /\ rd[t].copy[k] = rd[t].seen[k]
        /\ Exhausted(t) => rd[t].copy = rd[t].seen

\* A reader has copied a store with all the keys of the bound and is about to
\* return, while a thread that called Merge or Delete sleeps in Lock.
C21_Witness ==
    \E t \in Reading, u \in Threads :
        /\ Exhausted(t) /\ Cardinality(DOMAIN rd[t].copy) = MaxKey
        /\ pc[u] = "wwait"

\* The threads whose Iter holds the read lock of iter.l.Lock(): the iterator is
\* under construction, or it was returned and is open. The threads inside the
\* critical section of a reading method, the Keys called by Iter included.
IterHolds == IterOpen \cup {t \in Threads : pc[t] \in {"ikeys", "kwait", "kcs"}}
ReadHolds == {t \in Threads : pc[t] \in {"rcs", "kcs"}}
AllReturned == \A t \in Threads : pc[t] = "idle"

\* C22: the read holds on s.mu are one for each Live Iterator that is open or
\* under construction and one for each reading method inside its critical
\* section, so Iter leaves one hold behind and Close gives one back; the writer
\* slot is taken only by a thread inside Set, CAS, Delete or Merge; and when
\* every call has returned and every Live Iterator is closed, s.mu is free.
C22_LockBalance ==
    /\ readers = Cardinality(IterHolds) + Cardinality(ReadHolds)
    /\ wOwner # 0 => pc[wOwner] \in {"wwait", "wcs", "dloop", "mloop"}
    /\ AllReturned => readers = Cardinality(IterOpen)
    /\ AllReturned /\ IterOpen = {} => readers = 0 /\ wOwner = 0

\* A thread's Live Iterator is open while another thread's Iter is inside the
\* Keys it calls: three read holds.
C22_Witness ==
    \E t, u \in Threads :
        /\ pc[t] = "idle" /\ lit[t].m = "s"
        /\ pc[u] = "kcs"
        /\ readers = 3

====
